---- MODULE Spec2Model ----
(***************************************************************************)
(* BareClaw MCP server (mcp/server.py): the tool handlers that keep state  *)
(* on disk (mcp_servers line of config.toml, the memory directory, the     *)
(* audit log) and the handlers that launch a child process through _run.   *)
(*                                                                         *)
(* Text is modelled as a sequence of one-character strings, so that the    *)
(* regular expression, split, join, startswith, rstrip and splitlines are  *)
(* computed character by character, as Python computes them.               *)
(***************************************************************************)
EXTENDS Integers, Sequences, FiniteSets, TLC

VARIABLES
    config,     \* ~/.bareclaw/config.toml: [exists, bytes]
    audit,      \* ~/.bareclaw/workspace/audit.log: [exists, bytes]
    memory,     \* ~/.bareclaw/workspace/memory/: [exists, nodes]
    last,       \* the tool call that returned last: its arguments, the
                \* state it found and what it returned
    repeat,     \* TRUE iff that call repeated the call before it
    calls,      \* number of tool calls made so far
    caller,     \* two concurrent callers of the config tools
    order,      \* the file accesses of the two callers, in time order
    run         \* the tool call in progress in a process-launching handler

vars == <<config, audit, memory, last, repeat, calls, caller, order, run>>

(***************************************************************************)
(* Python text primitives                                                  *)
(***************************************************************************)

\* str.isspace() characters that occur in the model's alphabets.
Whitespace == {" ", "\t", "\n", "\r"}

Min(S) == CHOOSE x \in S : \A y \in S : x <= y

\* Smallest index i >= from with s[i] \in chars, 0 when there is none.
FirstIndex(s, chars, from) ==
    LET hits == {i \in from..Len(s) : s[i] \in chars}
    IN  IF hits = {} THEN 0 ELSE Min(hits)

\* Index of the first character at or after i that is not whitespace
\* (Len(s) + 1 when the rest is whitespace): what a greedy \s* skips.
SkipWs(s, i) ==
    LET stops == {j \in i..Len(s) : s[j] \notin Whitespace}
    IN  IF stops = {} THEN Len(s) + 1 ELSE Min(stops)

StartsWith(s, p) == Len(p) <= Len(s) /\ SubSeq(s, 1, Len(p)) = p

EndsWith(s, p) == Len(p) <= Len(s) /\ SubSeq(s, Len(s) - Len(p) + 1, Len(s)) = p

RECURSIVE RStrip(_)
RStrip(s) ==
    IF s # <<>> /\ s[Len(s)] \in Whitespace
    THEN RStrip(SubSeq(s, 1, Len(s) - 1))
    ELSE s

RECURSIVE LStrip(_)
LStrip(s) ==
    IF s # <<>> /\ s[1] \in Whitespace THEN LStrip(Tail(s)) ELSE s

Strip(s) == LStrip(RStrip(s))

\* s.split(sep) for a one-character separator: empty pieces are kept.
RECURSIVE Split(_, _)
Split(s, sep) ==
    LET i == FirstIndex(s, {sep}, 1)
    IN  IF i = 0 THEN <<s>>
        ELSE <<SubSeq(s, 1, i - 1)>> \o Split(SubSeq(s, i + 1, Len(s)), sep)

\* sep.join(parts)
RECURSIVE Join(_, _)
Join(parts, sep) ==
    IF parts = <<>> THEN <<>>
    ELSE IF Len(parts) = 1 THEN parts[1]
    ELSE parts[1] \o sep \o Join(Tail(parts), sep)

\* s.splitlines(): the pieces between line breaks, no empty piece after a
\* final line break.
RECURSIVE SplitLines(_)
SplitLines(s) ==
    IF s = <<>> THEN <<>>
    ELSE LET i == FirstIndex(s, {"\n"}, 1)
         IN  IF i = 0 THEN <<s>>
             ELSE <<SubSeq(s, 1, i - 1)>> \o SplitLines(SubSeq(s, i + 1, Len(s)))

\* Path.read_text(): text mode with universal newlines, "\r\n" and "\r"
\* are read as "\n".
RECURSIVE ReadText(_)
ReadText(bytes) ==
    IF bytes = <<>> THEN <<>>
    ELSE IF bytes[1] = "\r"
         THEN IF Len(bytes) >= 2 /\ bytes[2] = "\n"
              THEN <<"\n">> \o ReadText(SubSeq(bytes, 3, Len(bytes)))
              ELSE <<"\n">> \o ReadText(Tail(bytes))
         ELSE <<bytes[1]>> \o ReadText(Tail(bytes))

\* Path.write_text() on POSIX: "\n" is written as os.linesep = "\n".
WriteText(text) == text

NoFile == [exists |-> FALSE, bytes |-> <<>>]
File(bytes) == [exists |-> TRUE, bytes |-> bytes]

(***************************************************************************)
(* Config store: the mcp_servers line of config.toml                       *)
(***************************************************************************)

KEY == <<"m", "c", "p", "_", "s", "e", "r", "v", "e", "r", "s">>

NoMatch == [found |-> FALSE, start |-> 0, end |-> 0, group |-> <<>>]

\* The regular expression  mcp_servers\s*=\s*"(.*?)"  tried at position p:
\* the key, whitespace, "=", whitespace, an opening quote, then the fewest
\* characters other than a line break up to a closing quote.
MatchAt(s, p) ==
    LET a == p + Len(KEY)
        e == SkipWs(s, a)
        q == SkipWs(s, e + 1)
        k == FirstIndex(s, {"\"", "\n"}, q + 1)
    IN  IF /\ a - 1 <= Len(s)
           /\ SubSeq(s, p, a - 1) = KEY
           /\ e <= Len(s) /\ s[e] = "="
           /\ q <= Len(s) /\ s[q] = "\""
           /\ k > 0 /\ s[k] = "\""
        THEN [found |-> TRUE, start |-> p, end |-> k,
              group |-> SubSeq(s, q + 1, k - 1)]
        ELSE NoMatch

\* re.search(r'^mcp_servers\s*=\s*"(.*?)"', content, re.MULTILINE): the
\* leftmost match that starts at the start of the text or after a "\n".
ReSearch(s) ==
    LET starts == {p \in 1..Len(s) :
                      /\ (p = 1 \/ s[p - 1] = "\n")
                      /\ MatchAt(s, p).found}
    IN  IF starts = {} THEN NoMatch ELSE MatchAt(s, Min(starts))

\* [e for e in existing.split("|") if e and not e.startswith(f"{name}=")]
KeptEntries(existing, name) ==
    SelectSeq(Split(existing, "|"),
              LAMBDA e : e # <<>> /\ ~StartsWith(e, name \o <<"=">>))

\* f'mcp_servers = "{new_val}"'
McpLine(new_val) == KEY \o <<" ", "=", " ", "\"">> \o new_val \o <<"\"">>

\* content[:match.start()] + f'mcp_servers = "{new_val}"' + content[match.end():]
Splice(content, m, new_val) ==
    SubSeq(content, 1, m.start - 1) \o McpLine(new_val)
        \o SubSeq(content, m.end + 1, Len(content))

\* Mutant of AddContent: the entries already stored are not kept, the value
\* is rewritten with the new entry alone.
AddContentOnlyNew(content, name, command) ==
    LET m == ReSearch(content)
        entry == name \o <<"=">> \o command
    IN  IF m.found
        THEN Splice(content, m, entry)
        ELSE RStrip(content) \o <<"\n">> \o McpLine(entry) \o <<"\n">>

\* The text mcp_add_server writes for the text it read.
AddContent(content, name, command) ==
    LET m == ReSearch(content)
        entry == name \o <<"=">> \o command
    IN  IF m.found
        THEN Splice(content, m,
                    Join(Append(KeptEntries(m.group, name), entry), <<"|">>))
        ELSE RStrip(content) \o <<"\n">> \o McpLine(entry) \o <<"\n">>

Ret(msg, arg) == [msg |-> msg, arg |-> arg]

AddedMsg == "Added MCP server"
RemovedMsg == "Removed MCP server"
AddNotFoundMsg == "Config file not found. Run bareclaw status first."
RemoveNotFoundMsg == "Config file not found."
ReadNotFoundMsg ==
    "Config file not found. Run bareclaw onboard or bareclaw status to initialize."
NoKeyMsg == "No mcp_servers configured. Nothing to remove."
NameNotFoundMsg == "Server not found in mcp_servers."
ContentMsg == "content"

\* Mutant of mcp_add_server: the existence check is lost and a missing
\* config file is created with the new line.
mcp_add_server_creates(file, name, command) ==
    [file |-> File(WriteText(AddContent(ReadText(file.bytes), name, command))),
     ret |-> Ret(AddedMsg, name \o <<"=">> \o command)]

\* mcp_add_server(name, command) on the file it finds: the file it leaves
\* and the string it returns.
mcp_add_server(file, name, command) ==
    IF ~file.exists
    THEN [file |-> file, ret |-> Ret(AddNotFoundMsg, <<>>)]
    ELSE [file |-> File(WriteText(AddContent(ReadText(file.bytes), name, command))),
          ret |-> Ret(AddedMsg, name \o <<"=">> \o command)]

\* len(existing.split("|")) - len(entries)
RemovedCount(existing, name) ==
    Len(Split(existing, "|")) - Len(KeptEntries(existing, name))

\* mcp_remove_server(name) on the file it finds.
mcp_remove_server(file, name) ==
    IF ~file.exists
    THEN [file |-> file, ret |-> Ret(RemoveNotFoundMsg, <<>>)]
    ELSE LET content == ReadText(file.bytes)
             m == ReSearch(content)
             new_val == Join(KeptEntries(m.group, name), <<"|">>)
         IN  IF ~m.found
             THEN [file |-> file, ret |-> Ret(NoKeyMsg, <<>>)]
             ELSE IF RemovedCount(m.group, name) = 0
             THEN [file |-> file, ret |-> Ret(NameNotFoundMsg, <<>>)]
             ELSE [file |-> File(WriteText(Splice(content, m, new_val))),
                   ret |-> Ret(RemovedMsg, new_val)]

\* read_config()
read_config(file) ==
    IF ~file.exists
    THEN [file |-> file, ret |-> Ret(ReadNotFoundMsg, <<>>)]
    ELSE [file |-> file, ret |-> Ret(ContentMsg, ReadText(file.bytes))]


(***************************************************************************)
(* Specification Spec: one caller, config tools called one after another   *)
(***************************************************************************)

MaxCalls == 3

\* Server names a caller passes: none holds "=" or "|".
Names == { <<"a", "b">>, <<"a", "b", "c">>, <<"q", "\"">> }

\* Launch commands a caller passes: none holds "|".
Commands == { <<"x">>, <<"y", "=", "1">>, <<"s", " ", "\"", "x", "\"">> }

\* Config files found at start: none; the three-line document with the
\* composite line in the middle; a document without the composite line whose
\* last line ends in a blank; a document whose composite line has one entry.
InitialConfigs ==
    { NoFile,
      File(<<"a", "=", "1", "\n">> \o KEY \o <<"=", "\"", "x", "=", "y", "\"", "\n",
             "b", "=", "2", "\n">>),
      File(<<"a", "=", "1", " ", "\n">>),
      File(KEY \o <<" ", "=", " ", "\"", "a", "b", "c", "=", "x", "\"", "\n">>) }

NoDir == [exists |-> FALSE, nodes |-> {}]

NoCall == [op |-> "none", name |-> <<>>, command |-> <<>>, n |-> 0,
           pre |-> NoFile, ret |-> Ret("none", <<>>)]

Call(op, name, command, n, pre, ret) ==
    [op |-> op, name |-> name, command |-> command, n |-> n,
     pre |-> pre, ret |-> ret]

NoCaller == [pc |-> "idle", op |-> "none", name |-> <<>>, command |-> <<>>,
             base |-> <<>>, ret |-> "none"]

NoRun == [tool |-> "none", pc |-> "idle", launches |-> 0,
          results |-> <<>>, ret |-> <<>>]

Init ==
    /\ config \in InitialConfigs
    /\ audit = NoFile
    /\ memory = NoDir
    /\ last = NoCall
    /\ repeat = FALSE
    /\ calls = 0
    /\ caller = [c \in {1, 2} |-> NoCaller]
    /\ order = <<>>
    /\ run = NoRun

SameCall(op, name, command, n) ==
    /\ last.op = op
    /\ last.name = name
    /\ last.command = command
    /\ last.n = n

AddServer ==
    \E name \in Names, command \in Commands :
        LET r == mcp_add_server(config, name, command)
        IN  /\ calls < MaxCalls
            /\ config' = r.file
            /\ last' = Call("mcp_add_server", name, command, 0, config, r.ret)
            /\ repeat' = SameCall("mcp_add_server", name, command, 0)
            /\ calls' = calls + 1
            /\ UNCHANGED <<audit, memory, caller, order, run>>

RemoveServer ==
    \E name \in Names :
        LET r == mcp_remove_server(config, name)
        IN  /\ calls < MaxCalls
            /\ config' = r.file
            /\ last' = Call("mcp_remove_server", name, <<>>, 0, config, r.ret)
            /\ repeat' = SameCall("mcp_remove_server", name, <<>>, 0)
            /\ calls' = calls + 1
            /\ UNCHANGED <<audit, memory, caller, order, run>>

ReadConfig ==
    LET r == read_config(config)
    IN  /\ calls < MaxCalls
        /\ config' = r.file
        /\ last' = Call("read_config", <<>>, <<>>, 0, config, r.ret)
        /\ repeat' = SameCall("read_config", <<>>, <<>>, 0)
        /\ calls' = calls + 1
        /\ UNCHANGED <<audit, memory, caller, order, run>>

Next == AddServer \/ RemoveServer \/ ReadConfig

Spec == Init /\ [][Next]_vars

(***************************************************************************)
(* Config store: what the claims speak of                                  *)
(***************************************************************************)

\* The entries of the composite value as the store reads them back: the
\* quoted value the regular expression finds, split on "|", empty pieces
\* dropped; no entries when the file or the line is absent.
Entries(file) ==
    IF ~file.exists THEN <<>>
    ELSE LET m == ReSearch(ReadText(file.bytes))
         IN  IF m.found
             THEN SelectSeq(Split(m.group, "|"), LAMBDA e : e # <<>>)
             ELSE <<>>

\* An entry split on its first "=": <<name, command>>.
PairOf(e) ==
    LET i == FirstIndex(e, {"="}, 1)
    IN  IF i = 0 THEN <<e, <<>>>>
        ELSE <<SubSeq(e, 1, i - 1), SubSeq(e, i + 1, Len(e))>>

PairSet(file) == {PairOf(Entries(file)[i]) : i \in DOMAIN Entries(file)}

StoredNames(file) == {pr[1] : pr \in PairSet(file)}

\* Number of entries of the composite value whose name is `name`.
CountName(file, name) ==
    Cardinality({i \in DOMAIN Entries(file) : PairOf(Entries(file)[i])[1] = name})

\* The lines of a file other than the mcp_servers line.
OtherLines(file) ==
    SelectSeq(SplitLines(file.bytes), LAMBDA l : ~StartsWith(l, KEY))

NameOk(name) == \A i \in DOMAIN name : name[i] \notin {"=", "|"}
CommandOk(command) == \A i \in DOMAIN command : command[i] # "|"

\* C1: mcp_remove_server(name), called on a config document in which no
\* stored entry is named exactly `name`, reports no removal and leaves the
\* file as it was.
C1_RemoveWithoutMatchChangesNothing ==
    (/\ last.op = "mcp_remove_server"
     /\ last.pre.exists
     /\ last.name \notin StoredNames(last.pre))
        => (config = last.pre /\ last.ret.msg # RemovedMsg)

\* C2: mcp_add_server(name, command) called a second time in a row leaves
\* the same set of decomposed pairs as the first call left, and that set
\* holds exactly one entry for name (name without "=" and "|", command
\* without "|").
C2_UpsertTwiceSameAsOnce ==
    (/\ last.op = "mcp_add_server"
     /\ repeat
     /\ last.pre.exists
     /\ NameOk(last.name) /\ CommandOk(last.command))
        => (/\ PairSet(config) = PairSet(last.pre)
            /\ CountName(last.pre, last.name) = 1
            /\ CountName(config, last.name) = 1)

\* C3: mcp_add_server and mcp_remove_server leave every line other than the
\* mcp_servers line with the same content, in the same order, whether the
\* line existed or was appended.
C3_OtherLinesUntouched ==
    (last.op \in {"mcp_add_server", "mcp_remove_server"} /\ last.pre.exists)
        => OtherLines(config) = OtherLines(last.pre)

\* C7: with no config file, mcp_add_server, mcp_remove_server and
\* read_config return their "config file not found" message and the file is
\* still absent afterwards.
C7_AbsentConfigIsNeverCreated ==
    (~last.pre.exists /\ last.op # "none")
        => /\ ~config.exists
           /\ last.op = "mcp_add_server" => last.ret = Ret(AddNotFoundMsg, <<>>)
           /\ last.op = "mcp_remove_server" => last.ret = Ret(RemoveNotFoundMsg, <<>>)
           /\ last.op = "read_config" => last.ret = Ret(ReadNotFoundMsg, <<>>)

\* C7 witness: all three tools have been called on the absent file, the last
\* of them mcp_add_server.
C7_Witness ==
    /\ calls = MaxCalls
    /\ ~last.pre.exists
    /\ last.op = "mcp_add_server"
    /\ last.ret = Ret(AddNotFoundMsg, <<>>)

\* C8: the names of the entries of the composite value are pairwise
\* distinct, and an upsert of a name that was stored leaves name=command as
\* the last entry.
C8_NamesUniqueNewEntryLast ==
    /\ \A i, j \in DOMAIN Entries(config) :
          PairOf(Entries(config)[i])[1] = PairOf(Entries(config)[j])[1] => i = j
    /\ (/\ last.op = "mcp_add_server"
        /\ last.pre.exists
        /\ last.name \in StoredNames(last.pre))
          => /\ Entries(config) # <<>>
             /\ Entries(config)[Len(Entries(config))]
                    = last.name \o <<"=">> \o last.command

(***************************************************************************)
(* Audit log reader                                                        *)
(***************************************************************************)

NotYetCreatedMsg == "(audit log not yet created)"
EmptyLogMsg == "(audit log is empty)"
LinesMsg == "lines"

\* seq[k:] of Python, for any integer k.
SliceFrom(seq, k) ==
    LET start == IF k < 0
                 THEN (IF Len(seq) + k < 0 THEN 0 ELSE Len(seq) + k)
                 ELSE (IF k > Len(seq) THEN Len(seq) ELSE k)
    IN  SubSeq(seq, start + 1, Len(seq))

\* tail = lines[-n:] if len(lines) > n else lines
TailLines(lines, n) == IF Len(lines) > n THEN SliceFrom(lines, 0 - n) ELSE lines

\* audit_log_read(n)
audit_log_read(file, n) ==
    IF ~file.exists
    THEN Ret(NotYetCreatedMsg, <<>>)
    ELSE LET tail == TailLines(SplitLines(ReadText(file.bytes)), n)
         IN  IF tail # <<>>
             THEN Ret(LinesMsg, Join(tail, <<"\n">>))
             ELSE Ret(EmptyLogMsg, <<>>)

MaxLogLen == 5
MaxN == 5

LogChars == {"a", "b", "\n"}

\* Every text of at most MaxLogLen characters over LogChars.
LogTexts == UNION {[1..k -> LogChars] : k \in 0..MaxLogLen}

InitLog ==
    /\ audit \in {NoFile} \cup {File(t) : t \in LogTexts}
    /\ config = NoFile
    /\ memory = NoDir
    /\ last = NoCall
    /\ repeat = FALSE
    /\ calls = 0
    /\ caller = [c \in {1, 2} |-> NoCaller]
    /\ order = <<>>
    /\ run = NoRun

AuditLogRead ==
    \E n \in 0..MaxN :
        /\ calls < MaxCalls
        /\ last' = Call("audit_log_read", <<>>, <<>>, n, audit,
                        audit_log_read(audit, n))
        /\ repeat' = SameCall("audit_log_read", <<>>, <<>>, n)
        /\ calls' = calls + 1
        /\ UNCHANGED <<config, audit, memory, caller, order, run>>

NextLog == AuditLogRead

SpecLog == InitLog /\ [][NextLog]_vars

\* The last min(n, total) of the lines.
LastLines(lines, n) ==
    LET k == IF n < Len(lines) THEN n ELSE Len(lines)
    IN  SubSeq(lines, Len(lines) - k + 1, Len(lines))

\* C4: audit_log_read(n), n >= 0, returns the last min(n, total_lines) lines
\* of the log in their order; the "not yet created" message for a missing
\* file and the "empty" message for a file without lines.
C4_TailIsLastMinLines ==
    (last.op = "audit_log_read" /\ last.n >= 0)
        => LET lines == SplitLines(ReadText(last.pre.bytes))
           IN  IF ~last.pre.exists THEN last.ret = Ret(NotYetCreatedMsg, <<>>)
               ELSE IF lines = <<>> THEN last.ret = Ret(EmptyLogMsg, <<>>)
               ELSE last.ret = Ret(LinesMsg, Join(LastLines(lines, last.n), <<"\n">>))

(***************************************************************************)
(* Memory directory: one file per entry, key = file stem                   *)
(***************************************************************************)

\* A node of the directory tree: its path below memory/, one name per
\* component, and whether it is a regular file.
Node(path, isFile) == [path |-> path, isFile |-> isFile]

Dir(nodes) == [exists |-> TRUE, nodes |-> nodes]

MdSuffix == <<".", "m", "d">>

\* PurePath.stem of a name that ends in ".md": the name without the suffix;
\* the name itself when the dot is its first character.
Stem(name) ==
    IF Len(name) > Len(MdSuffix)
    THEN SubSeq(name, 1, Len(name) - Len(MdSuffix))
    ELSE name

\* memory_dir.glob("*.md"): the children of memory/ itself whose name ends
\* in ".md", files and directories alike.
GlobMd(dir) ==
    {nd \in dir.nodes : Len(nd.path) = 1 /\ EndsWith(nd.path[1], MdSuffix)}

\* Code points of the characters that occur in names.
CodePoint(c) ==
    CASE c = "." -> 46 [] c = "/" -> 47 [] c = "1" -> 49 [] c = "2" -> 50
      [] c = "d" -> 100 [] c = "e" -> 101 [] c = "i" -> 105 [] c = "l" -> 108
      [] c = "m" -> 109 [] c = "n" -> 110 [] c = "o" -> 111 [] c = "s" -> 115
      [] c = "t" -> 116 [] c = "x" -> 120

\* s < t in Python's string order.
RECURSIVE StrLess(_, _)
StrLess(s, t) ==
    IF t = <<>> THEN FALSE
    ELSE IF s = <<>> THEN TRUE
    ELSE IF s[1] = t[1] THEN StrLess(Tail(s), Tail(t))
    ELSE CodePoint(s[1]) < CodePoint(t[1])

\* sorted(S) for a set of distinct strings.
RECURSIVE Sorted(_)
Sorted(S) ==
    IF S = {} THEN <<>>
    ELSE LET least == CHOOSE x \in S : \A y \in S \ {x} : StrLess(x, y)
         IN  <<least>> \o Sorted(S \ {least})

NoMemoryDirMsg == "(no memory directory yet)"
NoEntriesMsg == "(no memory entries)"
KeysMsg == "keys"
DeletedNoDirMsg == "deleted 0 entries (no memory directory)"
DeletedMsg == "deleted memory entries with prefix"
IsADirectoryError == "IsADirectoryError"

\* memory_list_keys()
memory_list_keys(dir) ==
    IF ~dir.exists
    THEN Ret(NoMemoryDirMsg, <<>>)
    ELSE LET keys == Sorted({Stem(nd.path[1]) : nd \in {g \in GlobMd(dir) : g.isFile}})
         IN  IF keys = <<>> THEN Ret(NoEntriesMsg, <<>>)
             ELSE Ret(KeysMsg, Join(keys, <<"\n">>))

\* The nodes memory_delete_prefix(prefix) unlinks: those of glob("*.md")
\* whose stem starts with prefix.
PrefixHits(dir, prefix) ==
    {nd \in GlobMd(dir) : StartsWith(Stem(nd.path[1]), prefix)}

\* memory_delete_prefix(prefix): the outcomes it can have. unlink() of a
\* directory raises, after the files that the listing put before it have
\* been unlinked; the listing order is the file system's.
memory_delete_prefix(dir, prefix) ==
    IF ~dir.exists
    THEN {[dir |-> dir, ret |-> Ret(DeletedNoDirMsg, 0)]}
    ELSE LET hits == PrefixHits(dir, prefix)
             files == {nd \in hits : nd.isFile}
         IN  IF files = hits
             THEN {[dir |-> Dir(dir.nodes \ hits),
                    ret |-> Ret(DeletedMsg, Cardinality(hits))]}
             ELSE {[dir |-> Dir(dir.nodes \ gone),
                    ret |-> Ret(IsADirectoryError, Cardinality(gone))] :
                        gone \in SUBSET files}

Name_notes_md == <<"n", "o", "t", "e", "s", ".", "m", "d">>
Name_session == <<"s", "e", "s", "s", "i", "o", "n">>
Name_sessions_md == <<"s", "e", "s", "s", "i", "o", "n", "s", ".", "m", "d">>
Name_1_md == <<"1", ".", "m", "d">>
Name_2_md == <<"2", ".", "m", "d">>
Name_notes_txt == <<"n", "o", "t", "e", "s", ".", "t", "x", "t">>

\* The nodes a memory directory of the model may hold: entry files at the
\* top, the files of the keys session/1 and session/2 (a key with "/" is a
\* file in a subdirectory), a file that is no entry.
NodeUniverse ==
    { Node(<<Name_notes_md>>, TRUE),
      Node(<<Name_sessions_md>>, TRUE),
      Node(<<Name_session>>, FALSE),
      Node(<<Name_session, Name_1_md>>, TRUE),
      Node(<<Name_session, Name_2_md>>, TRUE),
      Node(<<Name_notes_txt>>, TRUE) }

\* A set of nodes is a tree: the directory of every nested file is there.
IsTree(nodes) ==
    \A nd \in nodes :
        Len(nd.path) > 1 => Node(SubSeq(nd.path, 1, Len(nd.path) - 1), FALSE) \in nodes

Prefixes ==
    { <<>>, <<"n">>, Name_session, Name_session \o <<"/">> }

InitMemory ==
    /\ memory \in {NoDir} \cup {Dir(S) : S \in {T \in SUBSET NodeUniverse : IsTree(T)}}
    /\ config = NoFile
    /\ audit = NoFile
    /\ last = NoCall
    /\ repeat = FALSE
    /\ calls = 0
    /\ caller = [c \in {1, 2} |-> NoCaller]
    /\ order = <<>>
    /\ run = NoRun

MemoryListKeys ==
    /\ calls < MaxCalls
    /\ last' = Call("memory_list_keys", <<>>, <<>>, 0, memory, memory_list_keys(memory))
    /\ repeat' = SameCall("memory_list_keys", <<>>, <<>>, 0)
    /\ calls' = calls + 1
    /\ UNCHANGED <<config, audit, memory, caller, order, run>>

MemoryDeletePrefix ==
    \E prefix \in Prefixes :
        \E r \in memory_delete_prefix(memory, prefix) :
            /\ calls < MaxCalls
            /\ memory' = r.dir
            /\ last' = Call("memory_delete_prefix", prefix, <<>>, 0, memory, r.ret)
            /\ repeat' = SameCall("memory_delete_prefix", prefix, <<>>, 0)
            /\ calls' = calls + 1
            /\ UNCHANGED <<config, audit, caller, order, run>>

NextMemory == MemoryListKeys \/ MemoryDeletePrefix

SpecMemory == InitMemory /\ [][NextMemory]_vars

\* The memory entries of a directory: its ".md" files; the key of an entry
\* is its path below memory/ without the ".md", components joined by "/".
EntryNodes(dir) ==
    {nd \in dir.nodes : nd.isFile /\ EndsWith(nd.path[Len(nd.path)], MdSuffix)}

KeyOf(nd) ==
    LET whole == Join(nd.path, <<"/">>)
    IN  SubSeq(whole, 1, Len(whole) - Len(MdSuffix))

\* C5: memory_delete_prefix(prefix) deletes exactly the entries whose key
\* starts with prefix, reports their number, leaves everything else, and
\* reports 0 when called again with the same prefix; a missing directory
\* gives count 0.
C5_DeletesExactlyThePrefixedKeys ==
    last.op = "memory_delete_prefix"
        => IF ~last.pre.exists
           THEN memory = last.pre /\ last.ret = Ret(DeletedNoDirMsg, 0)
           ELSE LET hit == {nd \in EntryNodes(last.pre) : StartsWith(KeyOf(nd), last.name)}
                IN  /\ memory = Dir(last.pre.nodes \ hit)
                    /\ last.ret = Ret(DeletedMsg, Cardinality(hit))
                    /\ repeat => last.ret.arg = 0

(***************************************************************************)
(* Process runner and the handlers that launch a child process             *)
(***************************************************************************)

DefaultTimeout == 60
RunAgentTimeout == 30
SmokeTimeout == 90
IntegrationTimeout == 120
AgentStatusTimeout == 15
AgentStatusFallbackTimeout == 30
McpListToolsTimeout == 30
McpCallToolTimeout == 30
TimeoutSentinel == -1

\* str(i) for the integers the model renders.
IntText(i) ==
    CASE i = -1 -> "-1" [] i = 0 -> "0" [] i = 1 -> "1" [] i = 2 -> "2"
      [] i = 15 -> "15" [] i = 30 -> "30" [] i = 60 -> "60" [] i = 90 -> "90"
      [] i = 120 -> "120"

\* The handlers that call _run.
RunTools ==
    { "build", "run_tests", "status", "run_agent", "run_cron",
      "list_peripherals", "help", "run_smoke_tests",
      "run_integration_test_discord", "config_set", "config_get",
      "agent_status", "doctor", "mcp_list_servers", "mcp_list_tools",
      "mcp_call_tool" }

\* The timeout a handler passes to its k-th call of _run.
TimeoutOf(tool, k) ==
    CASE tool = "run_agent" -> RunAgentTimeout
      [] tool = "run_smoke_tests" -> SmokeTimeout
      [] tool = "run_integration_test_discord" -> IntegrationTimeout
      [] tool = "agent_status" ->
            (IF k = 1 THEN AgentStatusTimeout ELSE AgentStatusFallbackTimeout)
      [] tool = "mcp_list_tools" -> McpListToolsTimeout
      [] tool = "mcp_call_tool" -> McpCallToolTimeout
      [] OTHER -> DefaultTimeout

\* How subprocess.run(cmd, capture_output=True, text=True, timeout=t) can
\* end: the child exits; the timeout expires (the child is killed and
\* TimeoutExpired raised); the executable is missing (FileNotFoundError);
\* the launch fails otherwise (another OSError: no execute permission, exec
\* format error); an argument holds a NUL character (ValueError); the
\* child's output is not valid text (UnicodeDecodeError).
Exit(rc, out, err) == [kind |-> "exit", rc |-> rc, out |-> out, err |-> err]
Ends(kind) == [kind |-> kind, rc |-> 0, out |-> <<>>, err |-> <<>>]

ExitCodes == {0, 1, 2}
ChildOut == { <<>>, <<"o">>, <<"o", "\n">> }
ChildErr == { <<>>, <<"e">>, <<" ">> }

Outcomes ==
    {Exit(rc, out, err) : rc \in ExitCodes, out \in ChildOut, err \in ChildErr}
        \cup {Ends(k) : k \in {"TimeoutExpired", "FileNotFoundError", "OSError",
                               "ValueError", "UnicodeDecodeError"}}

Result(stdout, stderr, returncode) ==
    [stdout |-> stdout, stderr |-> stderr, returncode |-> returncode,
     ok |-> returncode = 0]

Returned(result) == [raised |-> FALSE, error |-> "none", result |-> result]
Raised(error) == [raised |-> TRUE, error |-> error, result |-> Result(<<>>, <<>>, 0)]

\* _run(cmd, timeout=timeout) when subprocess.run ends with `outcome`: the
\* record it returns, or the exception that leaves it.
RunOutcome(outcome, timeout) ==
    CASE outcome.kind = "exit" ->
            Returned(Result(Strip(outcome.out), Strip(outcome.err), outcome.rc))
      [] outcome.kind = "TimeoutExpired" ->
            Returned(Result(<<>>,
                            <<"Command timed out after ", IntText(timeout), "s">>,
                            TimeoutSentinel))
      [] outcome.kind = "FileNotFoundError" ->
            Returned(Result(<<>>, <<"[Errno 2] No such file or directory">>,
                            TimeoutSentinel))
      [] OTHER -> Raised(outcome.kind)

\* _format(result)
Format(result) ==
    LET parts ==
            (IF result.stdout # <<>> THEN <<result.stdout>> ELSE <<>>)
         \o (IF result.stderr # <<>>
             THEN << <<"[stderr]", "\n">> \o result.stderr >> ELSE <<>>)
         \o (IF ~result.ok
             THEN << <<"[exit code: ", IntText(result.returncode), "]">> >>
             ELSE <<>>)
    IN  IF parts # <<>> THEN Join(parts, <<"\n">>) ELSE <<"(no output)">>

\* The string a handler returns for the result of its last _run.
HandlerText(tool, result) ==
    CASE tool = "build" ->
            (IF result.ok
             THEN <<"Build succeeded. Binary at: ", "BINARY", "\n">> \o Format(result)
             ELSE <<"Build FAILED.", "\n">> \o Format(result))
      [] tool = "run_tests" ->
            (IF result.ok
             THEN <<"All tests passed.", "\n">> \o Format(result)
             ELSE <<"Tests FAILED.", "\n">> \o Format(result))
      [] OTHER -> Format(result)

\* Mutant of RunsAgain: every handler falls back to a second child when the
\* first result is not ok.
RunsAgainAnyTool(tool, results) ==
    Len(results) = 1 /\ ~results[1].ok

\* Whether the handler calls _run again after the results it has:
\* agent_status alone does, once, when its first result is not ok.
RunsAgain(tool, results) ==
    tool = "agent_status" /\ Len(results) = 1 /\ ~results[1].ok

InitRun ==
    /\ run = NoRun
    /\ config = NoFile
    /\ audit = NoFile
    /\ memory = NoDir
    /\ last = NoCall
    /\ repeat = FALSE
    /\ calls = 0
    /\ caller = [c \in {1, 2} |-> NoCaller]
    /\ order = <<>>

\* A tool call arrives and the handler makes its first call of _run.
ToolCall ==
    \E tool \in RunTools :
        /\ run.pc # "child"
        /\ calls < MaxCalls
        /\ run' = [tool |-> tool, pc |-> "child", launches |-> 1,
                   results |-> <<>>, ret |-> <<>>]
        /\ calls' = calls + 1
        /\ UNCHANGED <<config, audit, memory, last, repeat, caller, order>>

\* subprocess.run ends; _run returns or raises; the handler returns its
\* string, or calls _run once more.
ChildEnds ==
    \E outcome \in Outcomes :
        LET r == RunOutcome(outcome, TimeoutOf(run.tool, run.launches))
            results == Append(run.results, r.result)
        IN  /\ run.pc = "child"
            /\ run' =
                 IF r.raised
                 THEN [run EXCEPT !.pc = "raised", !.ret = <<r.error>>]
                 ELSE IF RunsAgain(run.tool, results)
                 THEN [run EXCEPT !.launches = @ + 1, !.results = results]
                 ELSE [run EXCEPT !.pc = "returned", !.results = results,
                                  !.ret = HandlerText(run.tool, r.result)]
            /\ UNCHANGED <<config, audit, memory, last, repeat, calls, caller, order>>

NextRun == ToolCall \/ ChildEnds

SpecRun == InitRun /\ [][NextRun]_vars

\* C6: _run never raises: however the launch ends, the caller gets a result
\* record with ok true iff returncode = 0, and a timeout or a missing
\* executable gives returncode -1, ok false, empty stdout and a non-empty
\* stderr message.
C6_RunAlwaysReturnsARecord ==
    /\ run.pc # "raised"
    /\ \A i \in DOMAIN run.results :
          LET r == run.results[i]
          IN  /\ r.ok <=> r.returncode = 0
              /\ r.returncode = TimeoutSentinel
                    => ~r.ok /\ r.stdout = <<>> /\ r.stderr # <<>>

\* C10 as stated: every tool call launches at most one child process.
C10_AtMostOneChildPerCall ==
    run.launches <= 1

\* C10 as amended: no handler other than agent_status calls _run twice: its
\* one result, a timeout or a non-zero exit included, is what it returns.
\* agent_status calls _run a second time exactly when its first result is
\* not ok, and returns the second result whatever it is; no tool call makes
\* more than two launches.
C10_OnlyAgentStatusFallsBackOnce ==
    /\ run.launches <= (IF run.tool = "agent_status" THEN 2 ELSE 1)
    /\ run.launches = 2 => ~run.results[1].ok
    /\ run.pc = "returned"
          => /\ Len(run.results) = run.launches
             /\ run.ret = HandlerText(run.tool, run.results[run.launches])
             /\ (run.tool = "agent_status" /\ ~run.results[1].ok)
                    => run.launches = 2

\* C10 witness: agent_status has returned after its first child exited with
\* status 1 and its fallback child timed out.
C10_Witness ==
    /\ run.tool = "agent_status"
    /\ run.pc = "returned"
    /\ run.launches = 2
    /\ run.results[1].returncode = 1
    /\ run.results[2].returncode = TimeoutSentinel

(***************************************************************************)
(* Two concurrent callers of mcp_add_server / mcp_remove_server            *)
(***************************************************************************)

RaceNames == { <<"a">>, <<"a", "b">> }
RaceCommands == { <<"x">>, <<"y">> }

RaceConfigs ==
    { File(<<"k", "=", "1", "\n">>),
      File(<<"k", "=", "1", "\n">> \o McpLine(<<"a", "=", "x">>) \o <<"\n">>),
      File(McpLine(<<"a", "=", "y", "|", "a", "b", "=", "x">>) \o <<"\n">>) }

\* What a handler that read `base` returns and writes: it computes from the
\* text it read; the file as it is on disk by now is not looked at.
HandlerOutcome(base, op, name, command) ==
    IF op = "mcp_add_server"
    THEN mcp_add_server(File(base), name, command)
    ELSE mcp_remove_server(File(base), name)

WroteMsg(msg) == msg \in {AddedMsg, RemovedMsg}

\* write() of `bytes` at offset 0 of a file that holds `onDisk`.
Overwrite(onDisk, bytes) ==
    bytes \o SubSeq(onDisk, Len(bytes) + 1, Len(onDisk))

InitRace ==
    /\ config \in RaceConfigs
    /\ caller = [c \in {1, 2} |-> NoCaller]
    /\ order = <<>>
    /\ audit = NoFile
    /\ memory = NoDir
    /\ last = NoCall
    /\ repeat = FALSE
    /\ calls = 0
    /\ run = NoRun

\* A caller's mcp_add_server(name, command) call arrives.
ArriveAdd(c) ==
    \E name \in RaceNames, command \in RaceCommands :
        /\ caller[c].pc = "idle"
        /\ caller' = [caller EXCEPT ![c] =
              [pc |-> "called", op |-> "mcp_add_server", name |-> name,
               command |-> command, base |-> <<>>, ret |-> "none"]]
        /\ calls' = calls + 1
        /\ UNCHANGED <<config, audit, memory, last, repeat, order, run>>

\* A caller's mcp_remove_server(name) call arrives.
ArriveRemove(c) ==
    \E name \in RaceNames :
        /\ caller[c].pc = "idle"
        /\ caller' = [caller EXCEPT ![c] =
              [pc |-> "called", op |-> "mcp_remove_server", name |-> name,
               command |-> <<>>, base |-> <<>>, ret |-> "none"]]
        /\ calls' = calls + 1
        /\ UNCHANGED <<config, audit, memory, last, repeat, order, run>>

\* config_path.exists() and content = config_path.read_text(); then the
\* handler computes its new text, and returns here if there is no file or
\* nothing to write.
ReadStep(c) ==
    LET base == ReadText(config.bytes)
        r == HandlerOutcome(base, caller[c].op, caller[c].name, caller[c].command)
        missing == IF caller[c].op = "mcp_add_server"
                   THEN AddNotFoundMsg ELSE RemoveNotFoundMsg
    IN  /\ caller[c].pc = "called"
        /\ caller' = [caller EXCEPT ![c] =
              IF ~config.exists
              THEN [@ EXCEPT !.pc = "done", !.ret = missing]
              ELSE IF WroteMsg(r.ret.msg)
              THEN [@ EXCEPT !.pc = "read", !.base = base]
              ELSE [@ EXCEPT !.pc = "done", !.base = base, !.ret = r.ret.msg]]
        /\ order' = Append(order, <<c, "read">>)
        /\ UNCHANGED <<config, audit, memory, last, repeat, calls, run>>

\* config_path.write_text(new_content) opens the file for writing, which
\* empties it.
TruncateStep(c) ==
    /\ caller[c].pc = "read"
    /\ config' = File(<<>>)
    /\ caller' = [caller EXCEPT ![c].pc = "writing"]
    /\ order' = Append(order, <<c, "truncate">>)
    /\ UNCHANGED <<audit, memory, last, repeat, calls, run>>

\* write_text writes the new text from the start of the file and the
\* handler returns its success message.
WriteStep(c) ==
    LET r == HandlerOutcome(caller[c].base, caller[c].op, caller[c].name,
                            caller[c].command)
    IN  /\ caller[c].pc = "writing"
        /\ config' = File(Overwrite(config.bytes, r.file.bytes))
        /\ caller' = [caller EXCEPT ![c].pc = "done", ![c].ret = r.ret.msg]
        /\ order' = Append(order, <<c, "write">>)
        /\ UNCHANGED <<audit, memory, last, repeat, calls, run>>

NextRace ==
    \E c \in {1, 2} :
        \/ ArriveAdd(c)
        \/ ArriveRemove(c)
        \/ ReadStep(c)
        \/ TruncateStep(c)
        \/ WriteStep(c)

SpecRace == InitRace /\ [][NextRace]_vars

\* Whether a file shows the effect of a call.
UpdatePresent(cl, file) ==
    IF cl.op = "mcp_add_server"
    THEN <<cl.name, cl.command>> \in PairSet(file)
    ELSE cl.name \notin StoredNames(file)

\* The file a call leaves when it runs alone on a file.
AloneOn(cl, file) ==
    IF cl.op = "mcp_add_server"
    THEN mcp_add_server(file, cl.name, cl.command).file
    ELSE mcp_remove_server(file, cl.name).file

Events == [i \in DOMAIN order |-> order[i][2]]

\* Both calls, on different names, have written, one write after the other.
BothWrote == caller[1].name # caller[2].name /\ Len(order) = 6

\* Both callers read before either wrote.
Interleaved ==
    BothWrote /\ Events = <<"read", "read", "truncate", "write", "truncate", "write">>

\* One caller read and wrote before the other read.
OneAfterTheOther ==
    BothWrote /\ Events = <<"read", "truncate", "write", "read", "truncate", "write">>

\* C9: when both callers, updating different names, read the config file
\* before either writes, both report success and the file ends as the later
\* writer alone would have left the text both read: the earlier writer's
\* update is in the file only if it was in that text already. When one call
\* runs after the other, both updates are in the file.
C9_InterleavedUpdateIsLost ==
    /\ Interleaved
          => LET first == caller[order[4][1]]
                 later == caller[order[6][1]]
             IN  /\ WroteMsg(first.ret) /\ WroteMsg(later.ret)
                 /\ config = AloneOn(later, File(first.base))
                 /\ UpdatePresent(later, config)
                 /\ UpdatePresent(first, config) <=> UpdatePresent(first, File(first.base))
    /\ OneAfterTheOther
          => /\ WroteMsg(caller[1].ret) /\ WroteMsg(caller[2].ret)
             /\ UpdatePresent(caller[1], config)
             /\ UpdatePresent(caller[2], config)

\* C9 witness: both calls interleaved, both reported success, and the
\* earlier writer's update is not in the file while the later writer's is.
C9_Witness ==
    /\ Interleaved
    /\ WroteMsg(caller[1].ret) /\ WroteMsg(caller[2].ret)
    /\ ~UpdatePresent(caller[order[4][1]], config)
    /\ UpdatePresent(caller[order[6][1]], config)

\* Both calls ran one after the other and both updates are in the file.
C9_SerialWitness ==
    /\ OneAfterTheOther
    /\ UpdatePresent(caller[1], config)
    /\ UpdatePresent(caller[2], config)

====
